---- MODULE Spec2Model ----
(***************************************************************************)
(* Model of the media import tool (sgasse/media-tools): the existing-file  *)
(* index, the duplicate resolver and the copy step of                      *)
(* sync_files_to_location (src/src/lib.rs).  sync_media_files              *)
(* (src/src/import.rs) has the same decision logic without the counters.   *)
(*                                                                         *)
(* A path is a record [root, sub, stem, ext]: root is a configured root    *)
(* directory, sub the date directory below the target root ("" elsewhere), *)
(* stem.ext the file name.  A file is a record [exif, size]; exif is the   *)
(* Option<DateTime> that get_exif_date returns for it, written as a        *)
(* sequence of length 0 (None) or 1 (Some).                                *)
(***************************************************************************)
EXTENDS Integers, Sequences, FiniteSets, TLC

VARIABLES
    fs,              \* the files on disk: path -> [exif, size]
    dirs,            \* the directories that exist at or below the target root
    pc,              \* "index" | "sync" | "done" | "failed"
    queue,           \* what the current directory walk has yet to yield
    existing_files,  \* the index: hashed file name -> sequence of ExistingFile
    stats,           \* Statistics
    outcome,         \* history: resolved candidate -> [kind, dest]
    fs0,             \* history: fs when the current run started
    failedIdx,       \* history: existing files whose size could not be read
    faults,          \* I/O failures injected into the current run
    run,             \* number of the current run
    err              \* the error the run returned with ("none" while Ok)

vars == <<fs, dirs, pc, queue, existing_files, stats, outcome,
          fs0, failedIdx, faults, run, err>>

----------------------------------------------------------------------------
(* Bounds of the model *)

MaxSize == 3     \* file sizes are 1..MaxSize
MaxFiles == 3    \* media files on disk before the first run
MaxFaults == 1   \* I/O failures per run
MaxRuns == 2     \* runs of the tool

----------------------------------------------------------------------------
(* The universe of files *)

Sizes == 1..MaxSize

\* The capture timestamps found in metadata: 2024-01-01T10:00:00+00:00
Stamps == <<[year |-> 2024, month |-> 1, day |-> 1, hour |-> 10]>>

Exifs == {<<>>} \cup {<<Stamps[k]>> : k \in 1..Len(Stamps)}
Files == [exif : Exifs, size : Sizes]

\* Config.extensions after build_extension_set
Extensions == {"jpg"}

\* Config.target_dir and Config.search_paths
target_dir == "t"
search_paths == <<"s1", "s2">>

\* Config.existing_paths: an archive elsewhere, and the target itself
existing_paths == <<"ex", target_dir>>

Path(root, sub, stem, ext) == [root |-> root, sub |-> sub, stem |-> stem, ext |-> ext]
Dir(root, sub) == [root |-> root, sub |-> sub]

\* DateTime::<FixedOffset>::default(), what unwrap_or_default() yields for None:
\* chrono's default is the Unix epoch, 1970-01-01T00:00:00+00:00.
DefaultDateTime == [year |-> 1970, month |-> 1, day |-> 1, hour |-> 0]

unwrap_or_default(opt) == IF opt = <<>> THEN DefaultDateTime ELSE opt[1]

\* Mutant of ZeroPad: the width is dropped from the format
ZeroPadDropped(n, w) == ToString(n)

\* format!("{:0w$}", n): decimal, left-padded with zeros to width w
ZeroPad(n, w) ==
    LET s == ToString(n)
        RECURSIVE pad(_)
        pad(t) == IF Len(t) >= w THEN t ELSE pad("0" \o t)
    IN pad(s)

\* format!("{:04}_{:02}_{:02}", created.year(), created.month(), created.day())
DateDirName(created) ==
    ZeroPad(created.year, 4) \o "_" \o ZeroPad(created.month, 2) \o "_" \o ZeroPad(created.day, 2)

----------------------------------------------------------------------------
(* Directory walks *)

Stems == <<"a", "b">>

\* The date directories the target root can hold, in directory order
TargetSubs == <<DateDirName(DefaultDateTime)>> \o [k \in 1..Len(Stamps) |-> DateDirName(Stamps[k])]

FlatSlots(root) == [i \in 1..Len(Stems) |-> Path(root, "", Stems[i], "jpg")]

TargetSlots ==
    [n \in 1..(Len(TargetSubs) * Len(Stems)) |->
        Path(target_dir, TargetSubs[((n - 1) \div Len(Stems)) + 1],
             Stems[((n - 1) % Len(Stems)) + 1], "jpg")]

\* A file that is no media file, in the existing location and in a search location
NotesFile == [exif |-> <<>>, size |-> 1]
NotesSlots == {Path("ex", "", "n", "txt"), Path("s1", "", "n", "txt")}

\* Every path of the model, in the order a walk yields them
AllSlots ==
    FlatSlots("ex") \o <<Path("ex", "", "n", "txt")>> \o TargetSlots
    \o FlatSlots("s1") \o <<Path("s1", "", "n", "txt")>> \o FlatSlots("s2")

Range(s) == {s[i] : i \in 1..Len(s)}

\* WalkDir::new(root): the files below root (none when root does not exist)
WalkDir(root, f) ==
    LET present(p) == p.root = root /\ p \in DOMAIN f
    IN SelectSeq(AllSlots, present)

\* .filter_map(|e| match e.path().extension() { Some(ext) if extensions.contains(ext) .. })
HasMediaExtension(p) == p.ext \in Extensions

\* find_media_files(search_paths, extensions), and the same walk in build_existing_files_set
RECURSIVE find_media_files(_, _)
find_media_files(roots, f) ==
    IF roots = <<>> THEN <<>>
    ELSE SelectSeq(WalkDir(Head(roots), f), HasMediaExtension) \o find_media_files(Tail(roots), f)

----------------------------------------------------------------------------
(* The index and the resolver *)

file_name(p) == [stem |-> p.stem, ext |-> p.ext]

\* hashed(file.file_name()): DefaultHasher::new() has fixed keys, so the hash is a
\* function of the name alone; on the names of the model it is one-to-one.
hashed(name) ==
    LET code(s) == CASE s = "a" -> 97 [] s = "b" -> 98 [] s = "n" -> 110
                     [] s = "jpg" -> 7 [] OTHER -> 3
    IN code(name.stem) * 31 + code(name.ext)

get_exif_date(f, p) == f[p].exif
get_file_size(f, p) == f[p].size

\* ExistingFile::create_from_path, when get_file_size succeeds
create_from_path(f, p) ==
    [created |-> unwrap_or_default(get_exif_date(f, p)),
     size |-> get_file_size(f, p),
     path |-> p]

\* Mutant of IndexInsert: one descriptor per key, the last one wins
IndexInsertLastWins(index, key, e) ==
    IF key \in DOMAIN index
    THEN [index EXCEPT ![key] = <<e>>]
    ELSE index @@ (key :> <<e>>)

\* existing_files.entry(key).and_modify(|v| v.push(existing)).or_insert_with(|| vec![existing])
IndexInsert(index, key, e) ==
    IF key \in DOMAIN index
    THEN [index EXCEPT ![key] = Append(@, e)]
    ELSE index @@ (key :> <<e>>)

\* Mutant of HasSizeMatch: only the first descriptor is compared
HasSizeMatchFirstOnly(existing, file_size) ==
    Len(existing) >= 1 /\ existing[1].size = file_size

\* existing.iter().any(|e| e.size == file_size)
HasSizeMatch(existing, file_size) ==
    \E i \in 1..Len(existing) : existing[i].size = file_size

\* existing.iter().find(|e| e.created == created), as an Option
FindByCreated(existing, created) ==
    LET hits == {i \in 1..Len(existing) : existing[i].created = created}
    IN IF hits = {} THEN <<>>
       ELSE <<existing[CHOOSE i \in hits : \A j \in hits : i <= j]>>

\* Mutant of LowerOrEqualQuality: the comparison is turned around
LowerOrEqualQualityInverted(file_size, e) == file_size >= e.size

\* if file_size <= existing.size
LowerOrEqualQuality(file_size, e) == file_size <= e.size

\* Whether the loop body reaches `continue` for `file`, given the vector of the index
\* under the file's name
IsSkipped(existing, f, file) ==
    LET file_size == get_file_size(f, file)
        created == unwrap_or_default(get_exif_date(f, file))
        found == FindByCreated(existing, created)
    IN \/ HasSizeMatch(existing, file_size)
       \/ /\ found # <<>>
          /\ LowerOrEqualQuality(file_size, found[1])

\* date_dir and target_file of a file that is copied
DateDir(f, file) == Dir(target_dir, DateDirName(unwrap_or_default(get_exif_date(f, file))))
TargetFile(f, file) == Path(target_dir, DateDir(f, file).sub, file.stem, file.ext)

\* fs::copy(from, to): `to` is created or overwritten with the content of `from`
Copied(f, from, to) == [q \in DOMAIN f \cup {to} |-> IF q = to THEN f[from] ELSE f[q]]

ZeroStats == [name_existing |-> 0, found |-> 0, skipped |-> 0, copied_hq |-> 0, copied |-> 0]

----------------------------------------------------------------------------
(* Initial states: the disk before the first run *)

\* Where the disk holds media files before the first run: any name in the first
\* search location, the first name in the second search location and in the archive.
\* The target is new: what it holds, earlier runs of the tool have put there.
InitSlots ==
    Range(FlatSlots("s1"))
    \cup {p \in Range(FlatSlots("s2")) \cup Range(FlatSlots("ex")) : p.stem = Stems[1]}

InitFileSystems ==
    LET chosen == {S \in SUBSET InitSlots : Cardinality(S) <= MaxFiles}
        media == UNION {[S -> Files] : S \in chosen}
    IN {f @@ [p \in NotesSlots |-> NotesFile] : f \in media}

EmptyIndex == [k \in {} |-> <<>>]
EmptyOutcome == [p \in {} |-> <<>>]

Init ==
    /\ fs \in InitFileSystems
    /\ dirs = {}
    /\ pc = "index"
    /\ queue = find_media_files(existing_paths, fs)
    /\ existing_files = EmptyIndex
    /\ stats = ZeroStats
    /\ outcome = EmptyOutcome
    /\ fs0 = fs
    /\ failedIdx = {}
    /\ faults = 0
    /\ run = 1
    /\ err = "none"

----------------------------------------------------------------------------
(* build_existing_files_set: one step per file the walk yields *)

\* ExistingFile::create_from_path(&e) is Ok: the file is pushed under its hashed name
IndexFile ==
    /\ pc = "index"
    /\ queue # <<>>
    /\ LET p == Head(queue)
       IN existing_files' =
              IndexInsert(existing_files, hashed(file_name(p)), create_from_path(fs, p))
    /\ queue' = Tail(queue)
    /\ UNCHANGED <<fs, dirs, pc, stats, outcome, fs0, failedIdx,
                   faults, run, err>>

\* Mutant of IndexFileFails: the error is returned, as `?` would
IndexFileFailsAborts ==
    /\ pc = "index"
    /\ queue # <<>>
    /\ faults < MaxFaults
    /\ faults' = faults + 1
    /\ failedIdx' = failedIdx \cup {Head(queue)}
    /\ queue' = Tail(queue)
    /\ pc' = "failed"
    /\ err' = "get_file_size"
    /\ UNCHANGED <<fs, dirs, existing_files, stats, outcome, fs0, run>>

\* get_file_size fails in create_from_path: .ok() drops the file, the walk goes on
IndexFileFails ==
    /\ pc = "index"
    /\ queue # <<>>
    /\ faults < MaxFaults
    /\ faults' = faults + 1
    /\ failedIdx' = failedIdx \cup {Head(queue)}
    /\ queue' = Tail(queue)
    /\ UNCHANGED <<fs, dirs, pc, existing_files, stats, outcome, fs0,
                   run, err>>

\* The index is built; the target directory exists or is created; the loop starts
StartSync ==
    /\ pc = "index"
    /\ queue = <<>>
    /\ dirs' = dirs \cup {Dir(target_dir, "")}
    /\ pc' = "sync"
    /\ queue' = find_media_files(search_paths, fs)
    /\ stats' = ZeroStats
    /\ UNCHANGED <<fs, existing_files, outcome, fs0, failedIdx,
                   faults, run, err>>

\* fs::create_dir_all(target_dir)? fails
StartSyncFails ==
    /\ pc = "index"
    /\ queue = <<>>
    /\ Dir(target_dir, "") \notin dirs
    /\ faults < MaxFaults
    /\ faults' = faults + 1
    /\ pc' = "failed"
    /\ err' = "create_dir_all"
    /\ UNCHANGED <<fs, dirs, queue, existing_files, stats, outcome,
                   fs0, failedIdx, run>>

----------------------------------------------------------------------------
(* The loop of sync_files_to_location: one step per candidate file *)

\* existing_files.get(&key) is Some for the file at the head of the walk
NameHit(file) == hashed(file_name(file)) \in DOMAIN existing_files

\* The loop body ends in `continue`
SkipsFile(file) ==
    /\ NameHit(file)
    /\ IsSkipped(existing_files[hashed(file_name(file))], fs, file)

\* Mutant of StatsAtCopy: name_existing is counted only where a file is skipped
StatsAtCopyNameUncounted(s, hit) ==
    IF hit
    THEN [s EXCEPT !.found = @ + 1, !.copied_hq = @ + 1]
    ELSE [s EXCEPT !.found = @ + 1]

\* stats when the loop body reaches the copy: found, and for a name hit
\* name_existing and copied_hq, are counted
StatsAtCopy(s, hit) ==
    IF hit
    THEN [s EXCEPT !.found = @ + 1, !.name_existing = @ + 1, !.copied_hq = @ + 1]
    ELSE [s EXCEPT !.found = @ + 1]

\* Mutant of ResolveSizeFails: the error is logged and the loop goes on
ResolveSizeFailsIgnored ==
    /\ pc = "sync"
    /\ queue # <<>>
    /\ NameHit(Head(queue))
    /\ faults < MaxFaults
    /\ faults' = faults + 1
    /\ stats' = [stats EXCEPT !.found = @ + 1, !.name_existing = @ + 1]
    /\ queue' = Tail(queue)
    /\ err' = "get_file_size"
    /\ UNCHANGED <<fs, dirs, pc, existing_files, outcome, fs0, failedIdx, run>>

\* get_file_size(&file)? fails: the function returns the error
ResolveSizeFails ==
    /\ pc = "sync"
    /\ queue # <<>>
    /\ NameHit(Head(queue))
    /\ faults < MaxFaults
    /\ faults' = faults + 1
    /\ stats' = [stats EXCEPT !.found = @ + 1, !.name_existing = @ + 1]
    /\ queue' = Tail(queue)
    /\ pc' = "failed"
    /\ err' = "get_file_size"
    /\ UNCHANGED <<fs, dirs, existing_files, outcome, fs0, failedIdx, run>>

\* A size match, or a date match of lower or equal size: skipped
SkipFile ==
    /\ pc = "sync"
    /\ queue # <<>>
    /\ SkipsFile(Head(queue))
    /\ stats' = [stats EXCEPT !.found = @ + 1, !.name_existing = @ + 1, !.skipped = @ + 1]
    /\ outcome' = outcome @@ (Head(queue) :> [kind |-> "skip", dest |-> <<>>])
    /\ queue' = Tail(queue)
    /\ UNCHANGED <<fs, dirs, pc, existing_files, fs0, failedIdx,
                   faults, run, err>>

\* The file is copied into its date directory, which is created when missing
CopyFile ==
    /\ pc = "sync"
    /\ queue # <<>>
    /\ ~SkipsFile(Head(queue))
    /\ LET file == Head(queue)
           hit == NameHit(file)
       IN /\ dirs' = dirs \cup {DateDir(fs, file)}
          /\ fs' = Copied(fs, file, TargetFile(fs, file))
          /\ stats' = [StatsAtCopy(stats, hit) EXCEPT !.copied = @ + 1]
          /\ outcome' = outcome @@
                 (file :> [kind |-> IF hit THEN "hq" ELSE "new",
                           dest |-> <<TargetFile(fs, file)>>])
    /\ queue' = Tail(queue)
    /\ UNCHANGED <<pc, existing_files, fs0, failedIdx, faults, run, err>>

\* fs::create_dir(&date_dir)? fails
CreateDirFails ==
    /\ pc = "sync"
    /\ queue # <<>>
    /\ ~SkipsFile(Head(queue))
    /\ DateDir(fs, Head(queue)) \notin dirs
    /\ faults < MaxFaults
    /\ faults' = faults + 1
    /\ stats' = StatsAtCopy(stats, NameHit(Head(queue)))
    /\ queue' = Tail(queue)
    /\ pc' = "failed"
    /\ err' = "create_dir"
    /\ UNCHANGED <<fs, dirs, existing_files, outcome, fs0, failedIdx, run>>

\* fs::copy(&file, &target_file)? fails; the date directory was created before
CopyFails ==
    /\ pc = "sync"
    /\ queue # <<>>
    /\ ~SkipsFile(Head(queue))
    /\ faults < MaxFaults
    /\ faults' = faults + 1
    /\ dirs' = dirs \cup {DateDir(fs, Head(queue))}
    /\ stats' = StatsAtCopy(stats, NameHit(Head(queue)))
    /\ queue' = Tail(queue)
    /\ pc' = "failed"
    /\ err' = "copy"
    /\ UNCHANGED <<fs, existing_files, outcome, fs0, failedIdx, run>>

\* The walk is exhausted: the statistics are reported and the function returns Ok
Finish ==
    /\ pc = "sync"
    /\ queue = <<>>
    /\ pc' = "done"
    /\ UNCHANGED <<fs, dirs, queue, existing_files, stats, outcome,
                   fs0, failedIdx, faults, run, err>>

\* The tool is started again with the same configuration
Rerun ==
    /\ pc = "done"
    /\ run < MaxRuns
    /\ run' = run + 1
    /\ pc' = "index"
    /\ queue' = find_media_files(existing_paths, fs)
    /\ existing_files' = EmptyIndex
    /\ stats' = ZeroStats
    /\ outcome' = EmptyOutcome
    /\ fs0' = fs
    /\ failedIdx' = {}
    /\ faults' = 0
    /\ UNCHANGED <<fs, dirs, err>>

Next ==
    \/ IndexFile
    \/ IndexFileFails
    \/ StartSync
    \/ StartSyncFails
    \/ ResolveSizeFails
    \/ SkipFile
    \/ CopyFile
    \/ CreateDirFails
    \/ CopyFails
    \/ Finish
    \/ Rerun

Spec == Init /\ [][Next]_vars

----------------------------------------------------------------------------
(* Vocabulary of the properties *)

\* The descriptors the index holds
IndexEntries == UNION {Range(existing_files[k]) : k \in DOMAIN existing_files}

\* The capture timestamp of a candidate, defaulted
CaptureOf(p) == IF fs[p].exif = <<>> THEN DefaultDateTime ELSE fs[p].exif[1]

\* The descriptors that share the candidate's file name
SameName(p) == {e \in IndexEntries : e.path.stem = p.stem /\ e.path.ext = p.ext}

\* The descriptors that match the candidate's fingerprint (file name, capture timestamp)
Matched(p) == {e \in SameName(p) : e.created = CaptureOf(p)}

\* The date partition a capture timestamp belongs to, written out
PartitionOf(created) ==
    IF created.year = 1970 THEN "1970_01_01" ELSE "2024_01_0" \o ToString(created.day)

\* target/YYYY_MM_DD/<original-filename> for the candidate's own capture date
ExpectedTarget(p) == Path("t", PartitionOf(CaptureOf(p)), p.stem, p.ext)

Resolved == DOMAIN outcome

----------------------------------------------------------------------------
(* C1: a candidate whose fingerprint (file name, capture timestamp) has no entry in
   the index is copied as new: it is neither skipped nor counted as a higher-quality
   replacement, whatever else the index holds. *)
C1_NoMatchCopiesAsNew ==
    \A p \in Resolved : Matched(p) = {} => outcome[p].kind = "new"

(* C2: a candidate that matches an index entry and is no larger than some matched
   descriptor is skipped. *)
C2_NotLargerThanAnyMatchSkips ==
    \A p \in Resolved :
        (\E e \in Matched(p) : fs[p].size <= e.size) => outcome[p].kind = "skip"

(* C3: every file the index holds is still on disk at its path with the content it
   had when the run started. *)
C3_IndexedFilesUntouched ==
    \A e \in IndexEntries : e.path \in DOMAIN fs /\ fs[e.path] = fs0[e.path]

(* C4 as stated: a candidate without readable capture metadata that is copied lands
   in the date partition 0000_00_00. *)
C4_NoMetadataInZeroPartition ==
    \A p \in Resolved :
        (fs[p].exif = <<>> /\ outcome[p].kind # "skip")
            => outcome[p].dest = <<Path("t", "0000_00_00", p.stem, p.ext)>>

(* C4 as amended: a candidate without readable capture metadata gets the default
   timestamp, which is the Unix epoch, and when copied lands at
   target/1970_01_01/<original-filename>. *)
C4_NoMetadataInEpochPartition ==
    \A p \in Resolved :
        (fs[p].exif = <<>> /\ outcome[p].kind # "skip")
            => /\ outcome[p].dest = <<Path("t", "1970_01_01", p.stem, p.ext)>>
               /\ Path("t", "1970_01_01", p.stem, p.ext) \in DOMAIN fs
               /\ Dir("t", "1970_01_01") \in dirs

C4_Witness ==
    \E p \in Resolved :
        /\ fs[p].exif = <<>>
        /\ outcome[p].kind # "skip"
        /\ fs[Path("t", "1970_01_01", p.stem, p.ext)] = fs[p]

(* C6: a candidate for which some matched index entry has exactly the candidate's
   size is skipped, whatever else the index holds and in whatever order. *)
C6_SameSizeMatchSkips ==
    \A p \in Resolved :
        (\E e \in Matched(p) : e.size = fs[p].size)
            => outcome[p] = [kind |-> "skip", dest |-> <<>>]

\* The descriptor of the same size is not the first one under the candidate's name
C6_Witness ==
    \E p \in Resolved :
        LET existing == IF SameName(p) = {} THEN <<>>
                        ELSE existing_files[hashed(file_name(p))]
        IN /\ Len(existing) >= 2
           /\ existing[1].size # fs[p].size
           /\ existing[2] \in Matched(p)
           /\ existing[2].size = fs[p].size
           /\ outcome[p].kind = "skip"

(* C7 as stated: a candidate that matches an index entry and is strictly larger than
   every matched descriptor is copied to target/YYYY_MM_DD/<original-filename> of its
   own capture date and counted as a higher-quality copy. *)
C7_LargerThanAllMatchesCopiesHq ==
    \A p \in Resolved :
        (Matched(p) # {} /\ \A e \in Matched(p) : fs[p].size > e.size)
            => outcome[p] = [kind |-> "hq", dest |-> <<ExpectedTarget(p)>>]

(* C7 as amended: the same, for a candidate whose size is moreover the size of no
   indexed file of the same file name. *)
C7_LargerAndNoSameSizeCopiesHq ==
    \A p \in Resolved :
        (/\ Matched(p) # {}
         /\ \A e \in Matched(p) : fs[p].size > e.size
         /\ \A e \in SameName(p) : fs[p].size # e.size)
            => /\ outcome[p] = [kind |-> "hq", dest |-> <<ExpectedTarget(p)>>]
               /\ ExpectedTarget(p) \in DOMAIN fs

C7_Witness ==
    \E p \in Resolved :
        /\ Matched(p) # {}
        /\ \A e \in Matched(p) : fs[p].size > e.size
        /\ \A e \in SameName(p) : fs[p].size # e.size
        /\ SameName(p) # Matched(p)
        /\ outcome[p].kind = "hq"
        /\ fs[ExpectedTarget(p)] = fs[p]
        /\ stats.copied_hq >= 1

\* The candidates of the current run
Candidates == Range(find_media_files(search_paths, fs0))

\* When the run started, every candidate had its copy in the target, and the size of
\* that copy was readable while the target was indexed
SourcesArchived ==
    \A p \in Candidates :
        /\ ExpectedTarget(p) \in DOMAIN fs0
        /\ fs0[ExpectedTarget(p)] = fs0[p]
        /\ ExpectedTarget(p) \notin failedIdx

ExistingMedia == Range(find_media_files(existing_paths, fs0))

\* The descriptor of an existing file
DescriptorOf(p) ==
    [created |-> IF fs0[p].exif = <<>> THEN DefaultDateTime ELSE fs0[p].exif[1],
     size |-> fs0[p].size,
     path |-> p]

(* C9: a file whose size cannot be read while the index is built is left out and the
   walk goes on: once the index is built it holds exactly one descriptor for every
   other media file below the existing locations, under the file's name, and no run
   fails while it builds the index. *)
C9_IndexToleratesSizeFailure ==
    /\ pc = "index" => err = "none"
    /\ pc = "failed" => err \in {"create_dir_all", "get_file_size", "create_dir", "copy"}
    /\ (pc # "index" \/ queue = <<>>)
         => /\ IndexEntries = {DescriptorOf(p) : p \in ExistingMedia \ failedIdx}
            /\ \A k \in DOMAIN existing_files :
                  /\ \A i, j \in 1..Len(existing_files[k]) :
                        existing_files[k][i] = existing_files[k][j] => i = j
                  /\ \A i \in 1..Len(existing_files[k]) :
                        hashed(file_name(existing_files[k][i].path)) = k

\* A size could not be read, the index holds another file, and candidates were resolved
C9_Witness ==
    /\ pc = "done"
    /\ failedIdx # {}
    /\ IndexEntries # {}
    /\ Resolved # {}

(* C10: at every loop boundary and in the report, found = skipped + copied,
   name_existing = skipped + copied_hq and copied_hq <= copied, and every file found
   counts in exactly one of skipped and copied. *)
C10_StatisticsConsistent ==
    pc \in {"sync", "done"}
        => /\ stats.found = stats.skipped + stats.copied
           /\ stats.name_existing = stats.skipped + stats.copied_hq
           /\ stats.copied_hq <= stats.copied
           /\ stats.found = Cardinality(Resolved)
           /\ stats.skipped = Cardinality({p \in Resolved : outcome[p].kind = "skip"})
           /\ stats.copied = Cardinality({p \in Resolved : outcome[p].kind # "skip"})
           /\ stats.copied_hq = Cardinality({p \in Resolved : outcome[p].kind = "hq"})

C10_Witness ==
    /\ pc = "done"
    /\ stats.found = 2
    /\ stats.skipped = 1
    /\ stats.copied_hq = 1

====
